---- MODULE Spec2Model ----
(***************************************************************************)
(* A model of webby (PaulHowes/webby): the managed socket of               *)
(* include/net/socket.hpp, the request parser of include/webby/request.hpp *)
(* and the accept loop of include/webby/server.hpp.                        *)
(*                                                                         *)
(* The module holds several specifications over one set of variables; each *)
(* specification leaves the variables of the other parts untouched.        *)
(*   SpecSocket   - net::socket handles: construct, copy, destroy, I/O     *)
(***************************************************************************)
EXTENDS Integers, Sequences, FiniteSets, TLC

(***************************************************************************)
(* Bounds of the model.                                                    *)
(***************************************************************************)
\* number of net::socket objects that may exist over a run
MaxHandles == 3
\* number of descriptors the kernel hands out over a run
MaxFds == 3

\* number of create() calls made on one listening endpoint
MaxCreateCalls == 3
\* number of accept() calls made on one listening endpoint
MaxAccepts == 2
\* length of the arbitrary (not well-formed) request lines tried
MaxRawLine == 4
\* number of header lines of a request, before the blank line
MaxHeaderLines == 3
\* number of bytes a client sends on one connection
MaxWire == 5
\* the peek window the line-level specification gives read_line: BUFFER_SIZE
\* scaled down, so that lines longer than the window occur within MaxWire bytes
PeekWindow == 4
\* static const size_t BUFFER_SIZE of read_line
BUFFER_SIZE == 4096
\* unsigned arithmetic wraps around: the modulus (2^32 in the source) is scaled
\* down to what the checker's integers hold; any modulus above BUFFER_SIZE + 2
\* gives the same outcomes
UnsignedModulus == 65536

\* the empty shared_ptr<int> (descriptors are numbered from 1)
NULL == 0

\* what ::socket and ::accept return on failure
InvalidFd == -1
\* the handle of the listening endpoint (webby::server::_server); the other
\* handles are plain sockets and accepted connections
EP == 1
\* the handle of the connection being served (the local worker of run())
W == 2

Handles == 1..MaxHandles
Fds == 1..MaxFds

VARIABLES
  \* ---- net::socket handles and the kernel's descriptor table ----
  alive,        \* alive[h]: the net::socket object h is constructed and not yet destroyed
  _fd,          \* _fd[h]: the shared_ptr<int> member: NULL or the descriptor it points to
  fd_state,     \* kernel: fd_state[d] in {"unused", "open", "closed"}
  close_calls,  \* close_calls[d]: number of ::close(d) system calls issued so far
  last_call,    \* the last system call issued: [op, fd, was_open, shared, failed]
  proc,         \* "running", or "terminated" (std::terminate) or "crashed" (SIGSEGV)
  \* ---- one connection's byte stream ----
  wire,         \* bytes the peer has still to send
  queue,        \* the kernel's receive queue of the connection
  peer_closed,  \* the peer has shut down its side: an empty queue reads as 0 bytes
  rl,           \* the last read_line call: what it saw, asked for, got and returned
  \* ---- the listening endpoint (net::socket_impl, net::server) ----
  _res0,        \* the addrinfo member is set (not nullptr)
  listen_state, \* kernel: listen_state[d] = [reuse, bound, listening] of descriptor d
  oscalls,      \* the system calls of create() and accept(), in order: [n, call, fd, ok]
  ep_err,       \* the error the last create() or accept() threw, "" when it returned
  last_api,     \* the last member function called on the endpoint
  create_calls, \* number of create() calls so far
  accept_calls, \* number of accept() calls so far
  \* ---- webby::request ----
  request_line, \* the line process_request_line got from read_line
  rq_parts,     \* how the client composed that line: [kind, method, token, prefix, path]
  _method,      \* request::_method
  _path,        \* request::_path
  rq_status,    \* "none" before the constructor ran, then "ok" or "error" (request::error)
  hdr_name,     \* process_header_lines: the local variable name
  _header,      \* request::_header: from the name, compared without case, to the value
  hdr_block,    \* the header lines read_line has returned or will return, in order
  hdr_pos,      \* how many lines of hdr_block process_header_lines has processed
  hdr_stored,   \* the header names stored so far, as the lines spelled them
  \* ---- webby::server ----
  srv_pc,       \* where the server is: constructor, run() loop position, or failed
  run_err,      \* the error that left the constructor or run()
  res_location, \* the Location header set on the response, <<>> when not set
  dispatched    \* the requests handed to the router, in order: [conn, path, route]

sockVars == <<alive, _fd, fd_state, close_calls, last_call, proc>>
lineVars == <<wire, queue, peer_closed, rl>>
epVars == <<_res0, listen_state, oscalls, ep_err, last_api, create_calls, accept_calls>>
hdrVars == <<hdr_name, _header, hdr_block, hdr_pos, hdr_stored>>
reqVars == <<request_line, rq_parts, _method, _path, rq_status, hdrVars>>
srvVars == <<srv_pc, run_err, res_location, dispatched>>
vars == <<sockVars, lineVars, epVars, reqVars, srvVars>>

NoCall == [op |-> "none", fd |-> 0, was_open |-> TRUE, shared |-> FALSE, failed |-> FALSE]

SockInit ==
  /\ alive = [h \in Handles |-> FALSE]
  /\ _fd = [h \in Handles |-> NULL]
  /\ fd_state = [d \in Fds |-> "unused"]
  /\ close_calls = [d \in Fds |-> 0]
  /\ last_call = NoCall
  /\ proc = "running"

\* the handles other than h that are alive and hold the same descriptor: the
\* shared_ptr's use_count() - 1
OtherOwners(h) == {g \in Handles \ {h} : alive[g] /\ _fd[g] = _fd[h]}

(***************************************************************************)
(* net::socket::socket(): _fd is an empty shared_ptr.                      *)
(***************************************************************************)
socket_default(h) ==
  /\ proc = "running"
  /\ ~alive[h]
  /\ alive' = [alive EXCEPT ![h] = TRUE]
  /\ _fd' = [_fd EXCEPT ![h] = NULL]
  /\ UNCHANGED <<fd_state, close_calls, last_call, proc>>

(***************************************************************************)
(* net::socket::socket(int fd): wraps a descriptor the OS has just opened  *)
(* (as accept() does) in a fresh shared_ptr<int>.                          *)
(***************************************************************************)
socket_from_fd(h, d) ==
  /\ proc = "running"
  /\ ~alive[h]
  /\ fd_state[d] = "unused"
  /\ \A e \in Fds : e < d => fd_state[e] # "unused"
  /\ fd_state' = [fd_state EXCEPT ![d] = "open"]
  /\ alive' = [alive EXCEPT ![h] = TRUE]
  /\ _fd' = [_fd EXCEPT ![h] = d]
  /\ UNCHANGED <<close_calls, last_call, proc>>

(***************************************************************************)
(* net::socket::socket(const socket& s) : _fd(s._fd)                       *)
(***************************************************************************)
socket_copy(s, h) ==
  /\ proc = "running"
  /\ alive[s]
  /\ ~alive[h]
  /\ alive' = [alive EXCEPT ![h] = TRUE]
  /\ _fd' = [_fd EXCEPT ![h] = _fd[s]]
  /\ UNCHANGED <<fd_state, close_calls, last_call, proc>>

(***************************************************************************)
(* ::close(d). On an open descriptor the call succeeds, or fails (EINTR,   *)
(* EIO) and POSIX leaves the state of the descriptor unspecified; on a     *)
(* descriptor that is not open it fails with EBADF.                        *)
(*   failed:   the call returns -1                                         *)
(*   released: the descriptor is released by a failing call                *)
(***************************************************************************)
IsOpen(d) == d \in Fds /\ fd_state[d] = "open"

CloseOutcomes(d) ==
  IF IsOpen(d)
  THEN {[failed |-> FALSE, released |-> TRUE],
        [failed |-> TRUE, released |-> TRUE],
        [failed |-> TRUE, released |-> FALSE]}
  ELSE {[failed |-> TRUE, released |-> FALSE]}

\* the test the destructor makes before it closes: if(_fd)
DtorCloses(h) == _fd[h] # NULL

\* what an exception leaving ~socket() does: the destructor is implicitly
\* noexcept (-std=c++11), so the throw at line 66 calls std::terminate
DtorThrow == "terminated"

(***************************************************************************)
(* net::socket::~socket(): if _fd is set, ::close of the descriptor, and a *)
(* negative result throws socket_error;                                    *)
(* then the member _fd is released.                                        *)
(***************************************************************************)
socket_dtor(h) ==
  /\ proc = "running"
  /\ alive[h]
  /\ alive' = [alive EXCEPT ![h] = FALSE]
  /\ _fd' = [_fd EXCEPT ![h] = NULL]
  /\ IF DtorCloses(h)
     THEN \E o \in CloseOutcomes(_fd[h]) :
            /\ close_calls' = IF _fd[h] \in Fds
                             THEN [close_calls EXCEPT ![_fd[h]] = @ + 1]
                             ELSE close_calls
            /\ last_call' = [op |-> "close", fd |-> _fd[h],
                             was_open |-> IsOpen(_fd[h]),
                             shared |-> OtherOwners(h) # {},
                             failed |-> o.failed]
            /\ fd_state' = IF IsOpen(_fd[h]) /\ o.released
                           THEN [fd_state EXCEPT ![_fd[h]] = "closed"]
                           ELSE fd_state
            /\ proc' = IF o.failed THEN DtorThrow ELSE proc
     ELSE UNCHANGED <<fd_state, close_calls, last_call, proc>>

(***************************************************************************)
(* net::socket::read_block / write_block without the data: one ::recv or   *)
(* ::send on *_fd. A negative result throws socket_error to the caller (an *)
(* ordinary exception: the process keeps running). On an empty _fd the     *)
(* dereference *_fd is a null dereference.                                 *)
(***************************************************************************)
IoOutcomes(d) == IF IsOpen(d) THEN {FALSE, TRUE} ELSE {TRUE}

socket_io(h, op) ==
  /\ proc = "running"
  /\ alive[h]
  /\ IF _fd[h] = NULL
     THEN /\ proc' = "crashed"
          /\ UNCHANGED <<alive, _fd, fd_state, close_calls, last_call>>
     ELSE \E f \in IoOutcomes(_fd[h]) :
            /\ last_call' = [op |-> op, fd |-> _fd[h],
                             was_open |-> IsOpen(_fd[h]),
                             shared |-> OtherOwners(h) # {},
                             failed |-> f]
            /\ UNCHANGED <<alive, _fd, fd_state, close_calls, proc>>

read_block_call(h) == socket_io(h, "recv")
write_block_call(h) == socket_io(h, "send")

(***************************************************************************)
(* Claims about the managed socket (checked under SpecSocket).             *)
(***************************************************************************)
Owners(d) == {h \in Handles : alive[h] /\ _fd[h] = d}

\* C1: over any sequence of copies and destructions of handles sharing one
\* descriptor, ::close is issued on it exactly once, and only when the last
\* handle sharing it is destroyed: never more than one close, no close while
\* another handle still holds the descriptor, and one close once no handle is
\* left.
C1_CloseOnceAtLastOwner ==
  \A d \in Fds :
    /\ close_calls[d] <= 1
    /\ (close_calls[d] >= 1 => Owners(d) = {})
    /\ (last_call.op = "close" /\ last_call.fd = d => ~last_call.shared)
    /\ (fd_state[d] # "unused" /\ Owners(d) = {} => close_calls[d] = 1)

\* C2: no receive, send or close is ever issued on a descriptor that this
\* object has already closed: every such system call finds the descriptor open.
C2_NoCallOnClosedDescriptor ==
  last_call.op \in {"recv", "send", "close"} => last_call.was_open

\* C3: when ::close fails during the destruction of a managed socket, the
\* process is not aborted (no error leaves the destructor) and the descriptor
\* is not left open without an owner.
C3_CloseFailureContained ==
  (last_call.op = "close" /\ last_call.failed) =>
    /\ proc = "running"
    /\ (Owners(last_call.fd) = {} => fd_state[last_call.fd] # "open")

(***************************************************************************)
(* The byte stream of one connection and net::socket::read_line.           *)
(***************************************************************************)
CR == "CR"
LF == "LF"
CRLF == <<CR, LF>>
Byte == {CR, LF, "a"}

NoReadLine == [calls |-> 0, status |-> "none", line |-> <<>>, before |-> <<>>,
               after |-> <<>>, peeked |-> 0, asked |-> 0, got |-> 0]

RECURSIVE SeqsUpTo(_, _)
SeqsUpTo(S, n) ==
  IF n = 0 THEN {<<>>}
  ELSE LET shorter == SeqsUpTo(S, n - 1)
       IN shorter \cup {Append(q, c) : q \in {x \in shorter : Len(x) = n - 1}, c \in S}

Min(a, b) == IF a < b THEN a ELSE b
Drop(q, n) == SubSeq(q, n + 1, Len(q))
Take(q, n) == SubSeq(q, 1, n)

(***************************************************************************)
(* The values one ::recv(fd, buffer, length, flags) can return on a queue  *)
(* q: -1 (error), 0 when the queue is empty and the peer has closed, else  *)
(* between 1 and min(length, bytes queued). On an empty queue of an open   *)
(* peer the call blocks: no value.                                         *)
(***************************************************************************)
RecvResults(q, length, closed) ==
  {-1} \cup (IF q = <<>> THEN (IF closed THEN {0} ELSE {})
             ELSE 1..Min(length, Len(q)))

\* a read_block that never removes what it read from the queue
read_block_PeekOnly(q, n, peek) ==
  IF n < 0
  THEN [throws |-> TRUE, ret |-> 0, buffer |-> <<>>, queue |-> q]
  ELSE [throws |-> FALSE, ret |-> n % UnsignedModulus, buffer |-> Take(q, n), queue |-> q]

(***************************************************************************)
(* net::socket::read_block(buffer, length, peek) when ::recv returns n:    *)
(* n < 0 throws; otherwise the first n bytes of the queue are in buffer,   *)
(* and are removed from the queue unless peek.                             *)
(***************************************************************************)
read_block(q, n, peek) ==
  IF n < 0
  THEN [throws |-> TRUE, ret |-> 0, buffer |-> <<>>, queue |-> q]
  ELSE [throws |-> FALSE, ret |-> n % UnsignedModulus, buffer |-> Take(q, n),
        queue |-> IF peek THEN q ELSE Drop(q, n)]

\* the byte test of the scan loop: *p == '\r' || *p == '\n'
IsEol(buf, i) == buf[i] = CR \/ buf[i] = LF

(***************************************************************************)
(* The scan loop of read_line:                                             *)
(*   while((p - buffer) < read_length && found_eol < 2)                    *)
(*     { if(IsEol) found_eol++; p++; }                                     *)
(* p counts the bytes scanned.                                             *)
(***************************************************************************)
RECURSIVE ScanEol(_, _, _, _)
ScanEol(buf, read_length, p, found_eol) ==
  IF p < read_length /\ found_eol < 2
  THEN ScanEol(buf, read_length, p + 1,
               IF IsEol(buf, p + 1) THEN found_eol + 1 ELSE found_eol)
  ELSE [p |-> p, found_eol |-> found_eol]

\* std::string(buffer, size_t(read_length - 2)) with read_length unsigned
LineLength(read_length) == (read_length - 2 + UnsignedModulus) % UnsignedModulus

(***************************************************************************)
(* net::socket::read_line() on queue q with a buffer of size bytes, when    *)
(* the peeking ::recv returns n1 and the consuming ::recv returns n2.       *)
(* status is                                                               *)
(*   "ok"             a string is returned (line)                          *)
(*   "io_error"       read_block threw                                     *)
(*   "line_not_found" socket_error("Line not found")                       *)
(*   "undefined"      the string is built from more bytes than buffer      *)
(*                    holds (read_length - 2 wrapped around)               *)
(***************************************************************************)
read_line(q, size, n1, n2) ==
  LET pk == read_block(q, n1, TRUE)
      sc == ScanEol(pk.buffer, pk.ret, 0, 0)
      rd == read_block(q, n2, FALSE)
      r0 == [status |-> "ok", line |-> <<>>, queue |-> q,
             peeked |-> pk.ret, asked |-> 0, got |-> 0]
  IN  IF pk.throws THEN [r0 EXCEPT !.status = "io_error"]
      ELSE IF pk.ret = 0 THEN r0
      ELSE IF sc.found_eol < 2 THEN [r0 EXCEPT !.status = "line_not_found"]
      ELSE IF rd.throws THEN [r0 EXCEPT !.status = "io_error", !.asked = sc.p]
      ELSE IF LineLength(rd.ret) > size
           THEN [r0 EXCEPT !.status = "undefined", !.queue = rd.queue,
                           !.asked = sc.p, !.got = rd.ret]
      ELSE [r0 EXCEPT !.line = Take(rd.buffer, LineLength(rd.ret)),
                      !.queue = rd.queue, !.asked = sc.p, !.got = rd.ret]

\* every outcome of read_line() on queue q: the choices of the two ::recv
ReadLineOutcomes(q, closed, size) ==
  UNION { LET pk == read_block(q, n1, TRUE)
              sc == ScanEol(pk.buffer, pk.ret, 0, 0)
          IN  IF pk.throws \/ pk.ret = 0 \/ sc.found_eol < 2
              THEN {read_line(q, size, n1, 0)}
              ELSE {read_line(q, size, n1, n2) : n2 \in RecvResults(q, sc.p, closed)}
        : n1 \in RecvResults(q, size, closed) }

\* the connection part at rest, for the specifications that do not use it
LineIdle == wire = <<>> /\ queue = <<>> /\ peer_closed = FALSE /\ rl = NoReadLine

LineInit ==
  /\ wire \in SeqsUpTo(Byte, MaxWire)
  /\ queue = <<>>
  /\ peer_closed = FALSE
  /\ rl = NoReadLine

\* the network delivers the next n bytes the peer sent
Arrive(n) ==
  /\ n \in 1..Len(wire)
  /\ queue' = queue \o Take(wire, n)
  /\ wire' = Drop(wire, n)
  /\ UNCHANGED <<peer_closed, rl>>

\* the peer closes after its last byte
PeerClose ==
  /\ wire = <<>>
  /\ ~peer_closed
  /\ peer_closed' = TRUE
  /\ UNCHANGED <<wire, queue, rl>>

\* one call of read_line() by the owner of the connection, its buffer scaled
\* to PeekWindow bytes
ReadLine ==
  /\ rl.status \notin {"undefined"}
  /\ \E o \in ReadLineOutcomes(queue, peer_closed, PeekWindow) :
       /\ queue' = o.queue
       /\ rl' = [calls |-> Min(rl.calls + 1, 1), status |-> o.status, line |-> o.line,
                 before |-> queue, after |-> o.queue,
                 peeked |-> o.peeked, asked |-> o.asked, got |-> o.got]
  /\ UNCHANGED <<wire, peer_closed>>

(***************************************************************************)
(* The listening endpoint: net::socket_impl and net::server.               *)
(***************************************************************************)
ErrNone == ""
ErrExists == "Socket already exists."
ErrResolve == "Could not resolve address"
ErrSocket == "Could not create socket"
ErrOption == "Could not configure socket"
ErrBind == "Could not bind to socket"
ErrListen == "Could not listen for incoming connections"
ErrAccept == "Could not accept incoming connection"

NotListening == [reuse |-> FALSE, bound |-> FALSE, listening |-> FALSE]

EpInit ==
  /\ _res0 = FALSE
  /\ listen_state = [d \in Fds |-> NotListening]
  /\ oscalls = <<>>
  /\ ep_err = ErrNone
  /\ last_api = "none"
  /\ create_calls = 0
  /\ accept_calls = 0

OsCall(n, call, fd, ok) == [n |-> n, call |-> call, fd |-> fd, ok |-> ok]

\* the descriptor ::socket or ::accept returns: the lowest unused one, or -1
\* when the OS refuses (os_ok false) or no descriptor is left (EMFILE)
NewFd(fds, os_ok) ==
  IF os_ok /\ \E d \in Fds : fds[d] = "unused"
  THEN CHOOSE d \in Fds : fds[d] = "unused" /\ \A e \in Fds : fds[e] = "unused" => d <= e
  ELSE InvalidFd

\* the endpoint and the kernel as one value, threaded through create()
EpState == [fd |-> _fd[EP], res0 |-> _res0, fds |-> fd_state, ls |-> listen_state,
            log |-> oscalls, err |-> ErrNone]

\* the guard of create(): if(_fd)
AlreadyExists_Never(fd) == FALSE
AlreadyExists(fd) == fd # NULL

\* the failure test after ::socket: if(_fd < 0). _fd is the shared_ptr, not
\* the descriptor: the comparison is operator<(shared_ptr, nullptr_t), which
\* is false for every pointer, whatever descriptor it points to
SocketFailed(fd) == FALSE

(***************************************************************************)
(* net::socket_impl::create(name, port), call number n.                    *)
(*   resolves: ::getaddrinfo returns 0                                     *)
(*   sock_ok:  ::socket returns a descriptor                               *)
(***************************************************************************)
socket_impl_create(st, n, resolves, sock_ok) ==
  IF AlreadyExists(st.fd) THEN [st EXCEPT !.err = ErrExists]
  ELSE IF ~resolves
  THEN [st EXCEPT !.log = Append(@, OsCall(n, "getaddrinfo", NULL, FALSE)),
                  !.err = ErrResolve]
  ELSE LET s == NewFd(st.fds, sock_ok)
           st1 == [st EXCEPT
                     !.res0 = TRUE,
                     !.log = @ \o <<OsCall(n, "getaddrinfo", NULL, TRUE),
                                    OsCall(n, "socket", s, s # InvalidFd)>>,
                     !.fd = s,
                     !.fds = IF s # InvalidFd THEN [@ EXCEPT ![s] = "open"] ELSE @]
       IN  IF SocketFailed(st1.fd) THEN [st1 EXCEPT !.err = ErrSocket] ELSE st1

\* the kernel's record of descriptor d after a successful call
AfterCall(l, call) ==
  CASE call = "setsockopt" -> [l EXCEPT !.reuse = TRUE]
    [] call = "bind" -> [l EXCEPT !.bound = TRUE]
    [] call = "listen" -> [l EXCEPT !.listening = TRUE]

\* the step with the result of the call not tested
EpStep_Unchecked(st, n, call, os_ok, err) ==
  LET ok == st.fd \in Fds /\ st.fds[st.fd] = "open" /\ os_ok
      st1 == [st EXCEPT !.log = Append(@, OsCall(n, call, st.fd, ok))]
  IN  IF ~ok THEN st1 ELSE [st1 EXCEPT !.ls[st.fd] = AfterCall(@, call)]

\* one of ::setsockopt, ::bind, ::listen on *_fd: it fails on an invalid
\* descriptor (EBADF) and otherwise as the OS decides (os_ok)
EpStep(st, n, call, os_ok, err) ==
  LET ok == st.fd \in Fds /\ st.fds[st.fd] = "open" /\ os_ok
      st1 == [st EXCEPT !.log = Append(@, OsCall(n, call, st.fd, ok))]
  IN  IF ~ok THEN [st1 EXCEPT !.err = err]
      ELSE [st1 EXCEPT !.ls[st.fd] = AfterCall(@, call)]

\* sequencing in create(): an error thrown ends the function
Then(st, next) == IF st.err # ErrNone THEN st ELSE next

(***************************************************************************)
(* net::server::create(name, port): socket_impl::create, then              *)
(* ::setsockopt(SO_REUSEADDR), ::bind, ::listen(10000), each throwing when *)
(* the call returns a negative value.                                      *)
(***************************************************************************)
server_create(st, n, resolves, sock_ok, opt_ok, bind_ok, listen_ok) ==
  LET a == socket_impl_create(st, n, resolves, sock_ok)
      b == Then(a, EpStep(a, n, "setsockopt", opt_ok, ErrOption))
      c == Then(b, EpStep(b, n, "bind", bind_ok, ErrBind))
      d == Then(c, EpStep(c, n, "listen", listen_ok, ErrListen))
  IN  d

\* a call of net::server::create on the endpoint, with the OS's answers
net_server_create ==
  /\ proc = "running"
  /\ alive[EP]
  /\ create_calls < MaxCreateCalls
  /\ \E resolves, sock_ok, opt_ok, bind_ok, listen_ok \in BOOLEAN :
       LET r == server_create(EpState, create_calls + 1,
                              resolves, sock_ok, opt_ok, bind_ok, listen_ok)
       IN  /\ _fd' = [_fd EXCEPT ![EP] = r.fd]
           /\ _res0' = r.res0
           /\ fd_state' = r.fds
           /\ listen_state' = r.ls
           /\ oscalls' = r.log
           /\ ep_err' = r.err
  /\ last_api' = "create"
  /\ create_calls' = create_calls + 1
  /\ UNCHANGED <<alive, close_calls, last_call, proc, accept_calls>>

(***************************************************************************)
(* return worker(s, addr, len) and the initialisation of the caller's      *)
(* worker from it: with -std=c++11 the compiler may construct the object   *)
(* in place or copy it once or twice, and every copy left behind is        *)
(* destroyed, its ~socket() closing the descriptor the caller's worker     *)
(* shares. [closes, released, failed]: the ::close calls made, whether the *)
(* descriptor is closed, whether a ::close failed (the second always       *)
(* does: EBADF) and the throw from the destructor ended the process.       *)
(***************************************************************************)
ReturnInPlace == {[closes |-> 0, released |-> FALSE, failed |-> FALSE]}
ReturnOutcomes ==
  ReturnInPlace
    \cup {[closes |-> 1, released |-> TRUE, failed |-> FALSE],
          [closes |-> 1, released |-> TRUE, failed |-> TRUE],
          [closes |-> 1, released |-> FALSE, failed |-> TRUE],
          [closes |-> 2, released |-> TRUE, failed |-> TRUE]}

(***************************************************************************)
(* net::server::accept(): ::accept on *_fd; a negative result throws,      *)
(* otherwise a net::worker w wrapping the accepted descriptor is returned. *)
(* ::accept fails on a descriptor that is not a listening socket; on an    *)
(* empty _fd the dereference is a null dereference.                        *)
(***************************************************************************)
net_server_accept(w) ==
  /\ proc = "running"
  /\ alive[EP]
  /\ w # EP
  /\ ~alive[w]
  /\ accept_calls < MaxAccepts
  /\ accept_calls' = accept_calls + 1
  /\ last_api' = "accept"
  /\ IF _fd[EP] = NULL
     THEN /\ proc' = "crashed"
          /\ UNCHANGED <<alive, _fd, fd_state, close_calls, last_call,
                         oscalls, ep_err>>
     ELSE \E os_ok \in BOOLEAN :
            LET can == IsOpen(_fd[EP]) /\ listen_state[_fd[EP]].listening
                s == NewFd(fd_state, can /\ os_ok)
            IN  /\ oscalls' = Append(oscalls, OsCall(accept_calls + 1, "accept",
                                                      _fd[EP], s # InvalidFd))
                /\ IF s = InvalidFd
                   THEN /\ ep_err' = ErrAccept
                        /\ UNCHANGED <<alive, _fd, fd_state, close_calls, last_call, proc>>
                   ELSE \E r \in ReturnOutcomes :
                        /\ ep_err' = ErrNone
                        /\ alive' = [alive EXCEPT ![w] = TRUE]
                        /\ _fd' = [_fd EXCEPT ![w] = s]
                        /\ fd_state' = [fd_state EXCEPT
                                          ![s] = IF r.released THEN "closed" ELSE "open"]
                        /\ close_calls' = [close_calls EXCEPT ![s] = @ + r.closes]
                        /\ last_call' = IF r.closes = 0 THEN last_call
                                        ELSE [op |-> "close", fd |-> s,
                                              was_open |-> r.closes = 1, shared |-> TRUE,
                                              failed |-> r.failed]
                        /\ proc' = IF r.failed THEN DtorThrow ELSE proc
  /\ UNCHANGED <<_res0, listen_state, create_calls>>

(***************************************************************************)
(* net::socket_impl::~socket_impl(): freeaddrinfo(_res0) if set, then an   *)
(* explicit call socket::~socket(), after which the base-class destructor  *)
(* runs once more, as for every derived class, on the already destroyed    *)
(* base: undefined behaviour. Its test of _fd reads a released shared_ptr: *)
(* it finds it set as before (again) and closes once more, or finds it     *)
(* empty.                                                                  *)
(***************************************************************************)
socket_impl_dtor(h) ==
  /\ proc = "running"
  /\ alive[h]
  /\ alive' = [alive EXCEPT ![h] = FALSE]
  /\ _fd' = [_fd EXCEPT ![h] = NULL]
  /\ _res0' = FALSE
  /\ last_api' = "destroy"
  /\ IF DtorCloses(h)
     THEN \E o \in CloseOutcomes(_fd[h]), again \in BOOLEAN :
            LET second == ~o.failed /\ again
                calls == IF second THEN 2 ELSE 1
            IN  /\ close_calls' = IF _fd[h] \in Fds
                                  THEN [close_calls EXCEPT ![_fd[h]] = @ + calls]
                                  ELSE close_calls
                /\ last_call' = [op |-> "close", fd |-> _fd[h],
                                 was_open |-> IsOpen(_fd[h]) /\ ~second,
                                 shared |-> OtherOwners(h) # {},
                                 failed |-> o.failed \/ second]
                /\ fd_state' = IF IsOpen(_fd[h]) /\ o.released
                               THEN [fd_state EXCEPT ![_fd[h]] = "closed"]
                               ELSE fd_state
                /\ proc' = IF o.failed \/ second THEN DtorThrow ELSE proc
     ELSE UNCHANGED <<fd_state, close_calls, last_call, proc>>
  /\ UNCHANGED <<listen_state, oscalls, ep_err, create_calls, accept_calls>>

(***************************************************************************)
(* webby::request: the request line. Strings are sequences of characters.  *)
(***************************************************************************)
SP == " "
SLASH == "/"

\* webby::method, and the values an uninitialised _method can hold: one of
\* the eight methods, the enumerator for an unrecognized method, or a value
\* that is no enumerator at all
Methods == {"CONNECT", "DELETE", "GET", "HEAD", "OPTIONS", "POST", "PUT", "TRACE"}
Indeterminate == Methods \cup {"unrecognized", "out of range"}

UpperChars == <<"A", "B", "C", "D", "E", "G", "H", "I", "L", "N", "O", "P", "R", "S", "T", "U", "W">>
LowerChars == <<"a", "b", "c", "d", "e", "g", "h", "i", "l", "n", "o", "p", "r", "s", "t", "u", "w">>

\* lowercase() of webby/utility.hpp, on the letters the model uses
lowercase(str) ==
  [i \in DOMAIN str |->
     IF \E k \in DOMAIN UpperChars : UpperChars[k] = str[i]
     THEN LowerChars[CHOOSE k \in DOMAIN UpperChars : UpperChars[k] = str[i]]
     ELSE str[i]]

\* while(it != cend && *it != c) ++it;   positions are 1-based, Len + 1 is cend
RECURSIVE FindFrom(_, _, _)
FindFrom(str, it, c) ==
  IF it <= Len(str) /\ str[it] # c THEN FindFrom(str, it + 1, c) ELSE it

\* the if / else-if chain on the lowercased method token; a token that matches
\* none leaves _method as it was (m0)
MethodOf(m, m0) ==
  CASE m = <<"c", "o", "n", "n", "e", "c", "t">> -> "CONNECT"
    [] m = <<"d", "e", "l", "e", "t", "e">> -> "DELETE"
    [] m = <<"g", "e", "t">> -> "GET"
    [] m = <<"h", "e", "a", "d">> -> "HEAD"
    [] m = <<"o", "p", "t", "i", "o", "n", "s">> -> "OPTIONS"
    [] m = <<"p", "o", "s", "t">> -> "POST"
    [] m = <<"p", "u", "t">> -> "PUT"
    [] m = <<"t", "r", "a", "c", "e">> -> "TRACE"
    [] OTHER -> m0

\* the search for the start of the path begun at the start of the line
PathSearchStart_FromBegin(str, last) == FindFrom(str, 1, SLASH)

\* where the search for the start of the path begins: first = last, the space
\* after the method
PathSearchStart(str, last) == FindFrom(str, last, SLASH)

(***************************************************************************)
(* webby::request::process_request_line() on the line read, _method being  *)
(* m0 before: [throws, _method, _path].                                    *)
(***************************************************************************)
process_request_line(str, m0) ==
  LET cend == Len(str) + 1
      last1 == FindFrom(str, 1, SP)
      m == lowercase(SubSeq(str, 1, last1 - 1))
      first2 == PathSearchStart(str, last1)
      last2 == FindFrom(str, first2, SP)
  IN  IF last1 = cend THEN [throws |-> TRUE, _method |-> m0, _path |-> <<>>]
      ELSE IF first2 = cend
      THEN [throws |-> TRUE, _method |-> MethodOf(m, m0), _path |-> <<>>]
      ELSE IF last2 = cend
      THEN [throws |-> TRUE, _method |-> MethodOf(m, m0), _path |-> <<>>]
      ELSE [throws |-> FALSE, _method |-> MethodOf(m, m0),
            _path |-> SubSeq(str, first2, last2 - 1)]

\* ---- the request lines tried ----
HTTP11 == <<"H", "T", "T", "P", "/", "1", ".", "1">>
\* method tokens: the eight methods as HTTP spells them
MethodTokens ==
  { [name |-> "CONNECT", token |-> <<"C", "O", "N", "N", "E", "C", "T">>],
    [name |-> "DELETE", token |-> <<"D", "E", "L", "E", "T", "E">>],
    [name |-> "GET", token |-> <<"G", "E", "T">>],
    [name |-> "HEAD", token |-> <<"H", "E", "A", "D">>],
    [name |-> "OPTIONS", token |-> <<"O", "P", "T", "I", "O", "N", "S">>],
    [name |-> "POST", token |-> <<"P", "O", "S", "T">>],
    [name |-> "PUT", token |-> <<"P", "U", "T">>],
    [name |-> "TRACE", token |-> <<"T", "R", "A", "C", "E">>] }
\* other spellings and unknown methods
OtherTokens ==
  { [name |-> "GET", token |-> <<"g", "e", "t">>],
    [name |-> "POST", token |-> <<"P", "o", "s", "t">>],
    [name |-> "unrecognized", token |-> <<"B", "R", "E", "W">>],
    [name |-> "unrecognized", token |-> <<"G", "E", "T", "S">>] }
\* what may stand before the path: nothing, host, host:port, an absolute URI
Prefixes ==
  { <<>>, <<"h">>, <<"h", ":", "8">>,
    <<"h", "t", "t", "p", ":", "/", "/", "h">>,
    <<"h", "t", "t", "p", ":", "/", "/", "h", ":", "8">> }
Paths == { <<"/">>, <<"/", "a">>, <<"/", "a", "/", "b">> }

WellFormed(t, prefix, path) ==
  [kind |-> "well-formed", method |-> t.name, token |-> t.token,
   prefix |-> prefix, path |-> path]
Raw == [kind |-> "raw", method |-> "", token |-> <<>>, prefix |-> <<>>, path |-> <<>>]
LineOf(parts) == parts.token \o <<SP>> \o parts.prefix \o parts.path \o <<SP>> \o HTTP11

\* process_header_lines() has not run
HdrIdle ==
  /\ hdr_name = <<>>
  /\ _header = <<>>
  /\ hdr_block = <<>>
  /\ hdr_pos = 0
  /\ hdr_stored = {}

ReqInit ==
  /\ \/ /\ \E t \in MethodTokens \cup OtherTokens, prefix \in Prefixes, path \in Paths :
             rq_parts = WellFormed(t, prefix, path)
        /\ request_line = LineOf(rq_parts)
     \/ /\ rq_parts = Raw
        /\ request_line \in SeqsUpTo({SP, SLASH, "a"}, MaxRawLine)
  /\ _method \in Indeterminate
  /\ _path = <<>>
  /\ rq_status = "none"
  /\ HdrIdle

ReqIdle ==
  /\ request_line = <<>>
  /\ rq_parts = Raw
  /\ _method = "out of range"
  /\ _path = <<>>
  /\ rq_status = "none"
  /\ HdrIdle

\* the request constructor's call of process_request_line() on the line read
ProcessRequestLine ==
  /\ rq_status = "none"
  /\ LET r == process_request_line(request_line, _method)
     IN  /\ _method' = r._method
         /\ _path' = r._path
         /\ rq_status' = IF r.throws THEN "error" ELSE "ok"
  /\ UNCHANGED <<request_line, rq_parts, hdrVars>>

(***************************************************************************)
(* Claims about the request line (checked under SpecRequestLine).          *)
(***************************************************************************)
\* C10: for every well-formed request line METHOD SP [prefix]/path SP
\* HTTP/x.y the parser succeeds and stores METHOD as the method and /path as
\* the path, whatever the prefix: none, host, host:port, or an absolute URI
\* with its scheme.
C10_MethodAndPathExact ==
  (rq_status # "none" /\ rq_parts.kind = "well-formed" /\ rq_parts.method \in Methods) =>
    /\ rq_status = "ok"
    /\ _method = rq_parts.method
    /\ _path = rq_parts.path

\* the first position of character c in str after position k; 0 if none
FirstAfter(str, k, c) ==
  IF \E i \in DOMAIN str : i > k /\ str[i] = c
  THEN CHOOSE i \in DOMAIN str :
         i > k /\ str[i] = c /\ \A j \in DOMAIN str : (j > k /\ str[j] = c) => i <= j
  ELSE 0
\* the three ways a request line is invalid
NoSpaceAfterMethod(str) == FirstAfter(str, 0, SP) = 0
NoSlashAfterMethod(str) ==
  /\ ~NoSpaceAfterMethod(str)
  /\ FirstAfter(str, FirstAfter(str, 0, SP), SLASH) = 0
NoSpaceAfterPath(str) ==
  /\ ~NoSpaceAfterMethod(str)
  /\ ~NoSlashAfterMethod(str)
  /\ FirstAfter(str, FirstAfter(str, FirstAfter(str, 0, SP), SLASH), SP) = 0

\* C11: parsing the request line fails (request::error, the protocol error)
\* exactly when the line has no space after the method token, or no '/'
\* after the method token, or no space after the path; every other line
\* parses. The empty line, which is also what read_line() returns when the
\* peer has closed, fails.
C11_FailsExactlyOnInvalidLine ==
  /\ rq_status # "none" =>
       (rq_status = "error" <=>
          \/ NoSpaceAfterMethod(request_line)
          \/ NoSlashAfterMethod(request_line)
          \/ NoSpaceAfterPath(request_line))
  /\ (rq_status # "none" /\ request_line = <<>>) => rq_status = "error"

\* a line with a method token and a '/' but no space after the path failed
C11_Witness ==
  /\ rq_status = "error"
  /\ NoSpaceAfterPath(request_line)

\* C12: a request line whose method token is none of the eight methods
\* parses without error, and the method of the request is then the
\* 'unrecognized' variant: a determinate value that is none of the eight.
C12_UnknownMethodIsUnrecognized ==
  (rq_status # "none" /\ rq_parts.kind = "well-formed" /\ rq_parts.method = "unrecognized") =>
    /\ rq_status = "ok"
    /\ _method = "unrecognized"

(***************************************************************************)
(* webby::request: the header lines.                                       *)
(***************************************************************************)
COLON == ":"
COMMA == ","

\* while(itr != cend && *itr == ' ') ++itr;
RECURSIVE SkipSpaces(_, _)
SkipSpaces(str, it) ==
  IF it <= Len(str) /\ str[it] = SP THEN SkipSpaces(str, it + 1) ELSE it

\* the key of a std::map<string, string> with the default comparison
HeaderKey_Exact(name) == name

\* the key of std::map<string, string, no_case_compare>: names that differ
\* in letter case only are one key
HeaderKey(name) == lowercase(name)
\* _header[name] = value
HeaderPut(h, name, value) ==
  [k \in DOMAIN h \cup {HeaderKey(name)} |-> IF k = HeaderKey(name) THEN value ELSE h[k]]
\* _header[name] as an rvalue: a missing name is inserted with an empty value
HeaderGet(h, name) == IF HeaderKey(name) \in DOMAIN h THEN h[HeaderKey(name)] ELSE <<>>
\* a has_header that finds nothing
has_header_Never(h, name) == FALSE
\* request::has_header(name): _header.count(name) == 1
has_header(h, name) == HeaderKey(name) \in DOMAIN h
\* request::header(name): _header.at(name)
header(h, name) == h[HeaderKey(name)]

(***************************************************************************)
(* One turn of the loop of process_header_lines() on a non-empty line.     *)
(* The continuation test reads *(_header[name].crend()): the character     *)
(* before the first one of the stored value, outside the string. What it   *)
(* reads is not defined: is_comma tells whether it compared equal to ','.  *)
(***************************************************************************)
process_header_line(h, name, str, is_comma) ==
  LET line == SubSeq(str, SkipSpaces(str, 1), Len(str))
      colon == FindFrom(line, 1, COLON)
      new_name == SubSeq(line, 1, colon - 1)
      value == SubSeq(line, SkipSpaces(line, colon + 1), Len(line))
  IN  IF Len(name) > 0 /\ is_comma
      THEN [_header |-> HeaderPut(h, name, HeaderGet(h, name) \o <<SP>> \o line),
            name |-> name, put |-> {}]
      ELSE IF colon <= Len(line)
      THEN [_header |-> HeaderPut(h, new_name, value), name |-> new_name,
            put |-> {new_name}]
      ELSE [_header |-> h, name |-> name, put |-> {}]

\* ---- the header blocks tried: up to MaxHeaderLines lines before the blank line ----
HdrFold == <<"H", COLON, SP, "a", COMMA>>
HdrRest == <<SP, SP, "b">>
HdrWhole == <<"H", COLON, SP, "a", COMMA, SP, "b">>
HdrLower == <<"h", COLON, "c">>
HdrNoColon == <<"z", "z">>
HdrOther == <<"T", COLON, "d">>
HdrSpaced == <<"H", SP, COLON, SP, "e">>
HeaderLines == {HdrFold, HdrRest, HdrWhole, HdrLower, HdrNoColon, HdrOther, HdrSpaced}

\* the request line has been parsed; the header lines are about to be read
HdrInit ==
  /\ request_line = <<"G", "E", "T", SP, "/", "a", SP, "H">>
  /\ rq_parts = Raw
  /\ _method = "GET"
  /\ _path = <<"/", "a">>
  /\ rq_status = "ok"
  /\ hdr_name = <<>>
  /\ _header = <<>>
  /\ hdr_block \in SeqsUpTo(HeaderLines, MaxHeaderLines)
  /\ hdr_pos = 0
  /\ hdr_stored = {}

\* one turn of the loop of process_header_lines() on the next line of the block
ProcessHeaderLine ==
  /\ hdr_pos < Len(hdr_block)
  /\ \E is_comma \in BOOLEAN :
       LET r == process_header_line(_header, hdr_name, hdr_block[hdr_pos + 1], is_comma)
       IN  /\ _header' = r._header
           /\ hdr_name' = r.name
           /\ hdr_stored' = hdr_stored \cup r.put
  /\ hdr_pos' = hdr_pos + 1
  /\ UNCHANGED <<request_line, rq_parts, _method, _path, rq_status, hdr_block>>

(***************************************************************************)
(* webby::server: the constructor and the loop of run().                   *)
(***************************************************************************)
\* a net::server that has been constructed: server() : socket_impl()
EndpointInit ==
  /\ alive = [h \in Handles |-> h = EP]
  /\ _fd = [h \in Handles |-> NULL]
  /\ fd_state = [d \in Fds |-> "unused"]
  /\ close_calls = [d \in Fds |-> 0]
  /\ last_call = NoCall
  /\ proc = "running"
  /\ LineIdle
  /\ EpInit
  /\ ReqIdle

\* the server part at rest, for the specifications that do not use it
SrvIdle ==
  /\ srv_pc = "idle"
  /\ run_err = ErrNone
  /\ res_location = <<>>
  /\ dispatched = <<>>

\* the byte streams clients send
GetA == <<"G", "E", "T", SP, "/", "a", SP, "H">>
GetB == <<"G", "E", "T", SP, "/", "b", SP, "H">>
HostX == <<"H", "o", "s", "t", COLON, "x">>
ClientStreams ==
  { GetA \o CRLF \o HostX \o CRLF \o CRLF,
    GetA \o CRLF \o CRLF,
    GetB \o CRLF \o CRLF,
    GetA \o CRLF \o HostX \o CRLF,
    <<"G", "E", "T">> \o CRLF,
    <<>> }

\* a webby::server about to be constructed
ServerInit ==
  /\ EndpointInit
  /\ srv_pc = "new"
  /\ run_err = ErrNone
  /\ res_location = <<>>
  /\ dispatched = <<>>

\* webby::server::server(config, router): init() calls _server.create();
\* the catch clause is for webby::server_error only and rethrows, so every
\* error of create() leaves the constructor
ServerCtor ==
  /\ srv_pc = "new"
  /\ net_server_create
  /\ srv_pc' = IF ep_err' = ErrNone THEN "ready" ELSE "ctor_unwind"
  /\ run_err' = ep_err'
  /\ UNCHANGED <<lineVars, reqVars, res_location, dispatched>>

\* the constructor failed: the member _server is destroyed
ServerCtorUnwind ==
  /\ srv_pc = "ctor_unwind"
  /\ socket_impl_dtor(EP)
  /\ srv_pc' = "ctor_failed"
  /\ UNCHANGED <<lineVars, reqVars, run_err, res_location, dispatched>>

\* the owner of a constructed server calls run()
Run ==
  /\ srv_pc = "ready"
  /\ proc = "running"
  /\ srv_pc' = "accept"
  /\ UNCHANGED <<sockVars, lineVars, epVars, reqVars, run_err, res_location, dispatched>>

\* run(): net::worker worker = _server.accept(); a client connects (and will
\* send one of ClientStreams) or ::accept fails and the error leaves run()
Accept ==
  /\ srv_pc = "accept"
  /\ net_server_accept(W)
  /\ IF ep_err' = ErrNone
     THEN /\ srv_pc' = "hostname"
          /\ wire' \in ClientStreams
          /\ UNCHANGED run_err
     ELSE /\ srv_pc' = "run_failed"
          /\ run_err' = ep_err'
          /\ UNCHANGED wire
  /\ queue' = <<>>
  /\ peer_closed' = FALSE
  /\ rl' = NoReadLine
  /\ request_line' = <<>>
  /\ _method' \in Indeterminate
  /\ _path' = <<>>
  /\ rq_status' = "none"
  /\ hdr_name' = <<>>
  /\ _header' = <<>>
  /\ hdr_block' = <<>>
  /\ hdr_pos' = 0
  /\ hdr_stored' = {}
  /\ res_location' = <<>>
  /\ UNCHANGED <<rq_parts, dispatched>>

\* the error caught inside the loop: the worker is destroyed and the loop
\* goes on
Unwind_Caught(err) ==
  /\ socket_dtor(W)
  /\ srv_pc' = "accept"
  /\ run_err' = err

\* an exception leaves the body of the loop: the worker is destroyed and the
\* error leaves run()
Unwind(err) ==
  /\ socket_dtor(W)
  /\ srv_pc' = "run_failed"
  /\ run_err' = err

ErrHostname == "Could not get client hostname"

\* the lookup of the peer's name with its failure noted and the loop going on
ClientHostname_Logged ==
  /\ srv_pc = "hostname"
  /\ proc = "running"
  /\ srv_pc' = "request_line"
  /\ run_err' \in {run_err, ErrHostname}
  /\ UNCHANGED <<sockVars, lineVars, epVars, reqVars, res_location, dispatched>>

\* worker.client_hostname() and worker.client_ip() for the log:
\* gethostbyaddr finds the peer's name or client_hostname throws
ClientHostname ==
  /\ srv_pc = "hostname"
  /\ proc = "running"
  /\ \/ /\ srv_pc' = "request_line"
        /\ UNCHANGED <<sockVars, run_err>>
     \/ Unwind(ErrHostname)
  /\ UNCHANGED <<lineVars, epVars, reqVars, res_location, dispatched>>

ErrIo == "Error reading from connected host"
\* a read_line() that takes the end of the stream for a missing line
ReadError_EofThrows(o) ==
  CASE o.status = "io_error" -> ErrIo
    [] o.status = "line_not_found" -> "Line not found"
    [] o.status = "undefined" -> "std::bad_alloc"
    [] o.status = "ok" /\ o.peeked = 0 -> "Line not found"
    [] OTHER -> ErrNone

\* what a read_line() outcome throws, "" when it returns a line; a string
\* built past the buffer ends in std::bad_alloc or in a crash
ReadError(o) ==
  CASE o.status = "io_error" -> ErrIo
    [] o.status = "line_not_found" -> "Line not found"
    [] o.status = "undefined" -> "std::bad_alloc"
    [] OTHER -> ErrNone

\* _worker.read_line(): on a descriptor that is closed already every ::recv
\* fails (EBADF)
WorkerReadLine ==
  IF IsOpen(_fd[W])
  THEN ReadLineOutcomes(queue, peer_closed, BUFFER_SIZE)
  ELSE {read_line(queue, BUFFER_SIZE, -1, 0)}

RecordReadLine(o) ==
  [calls |-> 1, status |-> o.status, line |-> o.line, before |-> queue,
   after |-> o.queue, peeked |-> o.peeked, asked |-> o.asked, got |-> o.got]

\* request::request: process_request_line() reads the first line and parses it
RequestLine ==
  /\ srv_pc = "request_line"
  /\ proc = "running"
  /\ \E o \in WorkerReadLine :
       LET r == process_request_line(o.line, _method)
       IN  /\ queue' = o.queue
           /\ rl' = RecordReadLine(o)
           /\ IF ReadError(o) # ErrNone
              THEN /\ Unwind(ReadError(o))
                   /\ UNCHANGED <<request_line, _method, _path, rq_status>>
              ELSE /\ request_line' = o.line
                   /\ _method' = r._method
                   /\ _path' = r._path
                   /\ IF r.throws
                      THEN /\ rq_status' = "error"
                           /\ Unwind("Invalid request line")
                      ELSE /\ rq_status' = "ok"
                           /\ srv_pc' = "header_lines"
                           /\ UNCHANGED <<sockVars, run_err>>
  /\ UNCHANGED <<wire, peer_closed, epVars, rq_parts, hdrVars,
                 res_location, dispatched>>

\* request::request: process_header_lines() reads one more line: the blank
\* line ends the headers, any other line is processed
HeaderLine ==
  /\ srv_pc = "header_lines"
  /\ proc = "running"
  /\ \E o \in WorkerReadLine, is_comma \in BOOLEAN :
       LET r == process_header_line(_header, hdr_name, o.line, is_comma)
       IN  /\ queue' = o.queue
           /\ rl' = RecordReadLine(o)
           /\ IF ReadError(o) # ErrNone
              THEN /\ Unwind(ReadError(o))
                   /\ UNCHANGED hdrVars
              ELSE IF o.line = <<>>
              THEN /\ srv_pc' = "respond"
                   /\ UNCHANGED <<sockVars, run_err, hdrVars>>
              ELSE /\ _header' = r._header
                   /\ hdr_name' = r.name
                   /\ hdr_block' = Append(hdr_block, o.line)
                   /\ hdr_pos' = hdr_pos + 1
                   /\ hdr_stored' = hdr_stored \cup r.put
                   /\ UNCHANGED <<sockVars, run_err, srv_pc>>
  /\ UNCHANGED <<wire, peer_closed, epVars, request_line, rq_parts, _method, _path,
                 rq_status, res_location, dispatched>>

HOST == <<"H", "o", "s", "t">>
HTTP_SCHEME == <<"h", "t", "t", "p", COLON, "/", "/">>

\* run(): the response is created and, if the request has a Host header,
\* its Location header is set to "http://" + Host + path
Respond ==
  /\ srv_pc = "respond"
  /\ proc = "running"
  /\ res_location' = IF has_header(_header, HOST)
                     THEN HTTP_SCHEME \o header(_header, HOST) \o _path
                     ELSE <<>>
  /\ srv_pc' = "route"
  /\ UNCHANGED <<sockVars, lineVars, epVars, reqVars, run_err, dispatched>>

\* the router the server was constructed with: its patterns in the order of
\* registration
RouteTable == << <<"/", "a">> >>
NoRoute == "no route"
\* a pattern matches the paths it is a prefix of
Matches(pattern, path) ==
  /\ Len(pattern) <= Len(path)
  /\ SubSeq(path, 1, Len(pattern)) = pattern
\* router::route(req, res): the first pattern that matches the path, in the
\* order of registration; NoRoute (a response status, no exception) if none
route(path) ==
  IF \E i \in DOMAIN RouteTable : Matches(RouteTable[i], path)
  THEN RouteTable[CHOOSE i \in DOMAIN RouteTable :
                    /\ Matches(RouteTable[i], path)
                    /\ \A j \in 1..(i - 1) : ~Matches(RouteTable[j], path)]
  ELSE NoRoute

\* the call of the router with the no-route result thrown as an exception
Route_NoRouteThrows ==
  /\ srv_pc = "route"
  /\ proc = "running"
  /\ dispatched' = Append(dispatched, [conn |-> accept_calls, path |-> _path,
                                       route |-> route(_path)])
  /\ IF route(_path) = NoRoute
     THEN Unwind(NoRoute)
     ELSE /\ srv_pc' = "end_iteration"
          /\ UNCHANGED <<sockVars, run_err>>
  /\ UNCHANGED <<lineVars, epVars, reqVars, res_location>>

\* run(): _router.route(req, res); when it returns the loop body is over
Route ==
  /\ srv_pc = "route"
  /\ proc = "running"
  /\ dispatched' = Append(dispatched, [conn |-> accept_calls, path |-> _path,
                                       route |-> route(_path)])
  /\ srv_pc' = "end_iteration"
  /\ UNCHANGED <<sockVars, lineVars, epVars, reqVars, run_err, res_location>>

\* the end of the loop body with the connection handed to another thread:
\* the loop goes back to accept() while the connection stays open
EndIteration_Handoff ==
  /\ srv_pc = "end_iteration"
  /\ proc = "running"
  /\ alive' = [alive EXCEPT ![W] = FALSE]
  /\ srv_pc' = "accept"
  /\ UNCHANGED <<_fd, fd_state, close_calls, last_call, proc, lineVars, epVars, reqVars,
                 run_err, res_location, dispatched>>

\* the end of the loop body: res, req and worker are destroyed, and the loop
\* goes back to accept()
EndIteration ==
  /\ srv_pc = "end_iteration"
  /\ socket_dtor(W)
  /\ srv_pc' = "accept"
  /\ UNCHANGED <<lineVars, epVars, reqVars, run_err, res_location, dispatched>>

\* the network, while a connection is being served
Deliver ==
  /\ alive[W]
  /\ \E n \in 1..Len(wire) : Arrive(n)
  /\ UNCHANGED <<sockVars, epVars, reqVars, srvVars>>

ClientCloses ==
  /\ alive[W]
  /\ PeerClose
  /\ UNCHANGED <<sockVars, epVars, reqVars, srvVars>>

ServerNext ==
  \/ ServerCtor
  \/ ServerCtorUnwind
  \/ Run
  \/ Accept
  \/ ClientHostname
  \/ RequestLine
  \/ HeaderLine
  \/ Respond
  \/ Route
  \/ EndIteration
  \/ Deliver
  \/ ClientCloses

SpecServer == ServerInit /\ [][ServerNext]_vars


(***************************************************************************)
(* Claims about the header lines (checked under SpecHeaders).              *)
(***************************************************************************)
\* a turn of the loop, and the line it processes
HdrStep == hdr_pos' = hdr_pos + 1
CurLine == hdr_block[hdr_pos + 1]
\* the line without its leading spaces
Strip(l) ==
  IF \A i \in DOMAIN l : l[i] = SP THEN <<>>
  ELSE SubSeq(l, CHOOSE i \in DOMAIN l : l[i] # SP /\ \A j \in 1..(i - 1) : l[j] = SP, Len(l))
HasColon(l) == \E i \in DOMAIN l : l[i] = COLON
ColonAt(l) == CHOOSE i \in DOMAIN l : l[i] = COLON /\ \A j \in 1..(i - 1) : l[j] # COLON
\* the name and the value of a header line "name: value"
NameOf(l) == SubSeq(Strip(l), 1, ColonAt(Strip(l)) - 1)
ValueOf(l) == Strip(SubSeq(Strip(l), ColonAt(Strip(l)) + 1, Len(Strip(l))))
EndsWithComma(v) == Len(v) > 0 /\ v[Len(v)] = COMMA
\* the value last stored for the previous header ends with a comma
Continues ==
  /\ hdr_name # <<>>
  /\ has_header(_header, hdr_name)
  /\ EndsWithComma(header(_header, hdr_name))

\* C13: comma-continuation. When the value last stored for the previous
\* header ends with a comma, the next line, leading spaces stripped, is
\* appended to that value after one space and no header is created, even if
\* the line has a colon. (So 'H: a,' then '  b' stores what 'H: a, b' does.)
C13_ContinuationStep ==
  (HdrStep /\ Continues) =>
    _header' = [_header EXCEPT ![HeaderKey(hdr_name)] = @ \o <<SP>> \o Strip(CurLine)]
C13_CommaContinuation == [][C13_ContinuationStep]_vars

\* the spellings of a name that differ from it in letter case only
CaseVariants(n) ==
  {v \in [DOMAIN n -> {n[i] : i \in DOMAIN n} \cup {UpperChars[k] : k \in DOMAIN UpperChars}
                        \cup {LowerChars[k] : k \in DOMAIN LowerChars}] :
     \A i \in DOMAIN n :
       \/ v[i] = n[i]
       \/ \E k \in DOMAIN UpperChars :
            {v[i], n[i]} = {UpperChars[k], LowerChars[k]}}

\* C14: header lookup is case-insensitive. For every header name n stored and
\* every spelling n2 that differs from n in letter case only, has_header(n2)
\* is true and header(n2) is the value header(n) returns.
C14_LookupIgnoresCase ==
  \A n \in hdr_stored : \A n2 \in CaseVariants(n) :
    /\ has_header(_header, n2)
    /\ header(_header, n2) = header(_header, n)

\* a block was parsed that stored 'H' and never 'h', and header("h") finds it
C14_Witness ==
  /\ hdr_pos > 0
  /\ hdr_pos = Len(hdr_block)
  /\ <<"H">> \in hdr_stored
  /\ <<"h">> \notin hdr_stored
  /\ has_header(_header, <<"h">>)
  /\ Len(header(_header, <<"h">>)) > 0

\* C15: a header line with no colon that is not a continuation is dropped:
\* the mapping is unchanged (and nothing is raised); a valid header line
\* that comes after such a line is still stored under its name.
C15_NoColonStep ==
  /\ (HdrStep /\ ~Continues /\ ~HasColon(CurLine)) => _header' = _header
  /\ (HdrStep /\ ~Continues /\ HasColon(CurLine)
        /\ \E j \in 1..hdr_pos : ~HasColon(hdr_block[j])) =>
       /\ has_header(_header', NameOf(CurLine))
       /\ header(_header', NameOf(CurLine)) = ValueOf(CurLine)
C15_NoColonLineDropped == [][C15_NoColonStep]_vars

\* C16: when a header name (compared without case) is stored already with a
\* value that does not end with a comma, a later line for that name replaces
\* the value by its own: nothing is merged and the mapping keeps one entry
\* for the name.
C16_RepeatedStep ==
  (HdrStep /\ ~Continues /\ HasColon(CurLine)
     /\ has_header(_header, NameOf(CurLine))
     /\ ~EndsWithComma(header(_header, NameOf(CurLine)))) =>
    _header' = [_header EXCEPT ![HeaderKey(NameOf(CurLine))] = ValueOf(CurLine)]
C16_LaterDefinitionOverwrites == [][C16_RepeatedStep]_vars

\* a string with no space at its start and none at its end
Trimmed(n) == n = <<>> \/ (n[1] # SP /\ n[Len(n)] # SP)

\* C23: every header name stored is trimmed, with no leading and no
\* trailing space (the line 'H : e' is stored under the name 'H'), and
\* every value stored by a header line has no leading space.
C23_StoredNamesTrimmed ==
  /\ \A n \in hdr_stored : Trimmed(n)
  /\ \A k \in DOMAIN _header : Trimmed(k) /\ (_header[k] = <<>> \/ _header[k][1] # SP)

(***************************************************************************)
(* Claims about read_line (checked under SpecLine).                        *)
(***************************************************************************)
\* the positions i of q at which a CR is directly followed by an LF
CRLFPositions(q) == {i \in 1..(Len(q) - 1) : q[i] = CR /\ q[i + 1] = LF}
HasCRLF(q) == CRLFPositions(q) # {}
FirstCRLF(q) == CHOOSE i \in CRLFPositions(q) : \A j \in CRLFPositions(q) : i <= j
\* the bytes the peeking receive of the last read_line call returned
Peeked == Take(rl.before, rl.peeked)

\* C4: whenever the peeked bytes contain a CR LF pair and read_line returns
\* (its consuming receive having returned all the bytes asked for), the string
\* returned is the bytes before the first CR LF pair: a lone CR or a lone LF
\* neither ends the line nor counts towards the terminator.
C4_ReturnsPrefixBeforeFirstCRLF ==
  (rl.status = "ok" /\ rl.peeked > 0 /\ HasCRLF(Peeked) /\ rl.got = rl.asked) =>
    rl.line = Take(Peeked, FirstCRLF(Peeked) - 1)

\* C5: a read_line that returns a line removes from the receive queue exactly
\* that line and its CR LF terminator: the queue before the call is the line,
\* then CR LF, then the queue after the call (also when the consuming receive
\* returns fewer bytes than asked for).
C5_ConsumesLineAndTerminatorOnly ==
  (rl.status = "ok" /\ rl.peeked > 0) =>
    rl.before = rl.line \o CRLF \o rl.after

\* C6: whenever the peek returns bytes that hold no CR LF terminator,
\* read_line fails with "Line not found" and returns no partial line.
C6_NoTerminatorMeansLineNotFound ==
  (rl.calls > 0 /\ rl.status # "io_error" /\ rl.peeked > 0 /\ ~HasCRLF(Peeked)) =>
    rl.status = "line_not_found"

(***************************************************************************)
(* Claims about create() (checked under SpecEndpoint).                     *)
(***************************************************************************)
\* the system calls of the create() call made last
LastCreate == {i \in DOMAIN oscalls :
                 oscalls[i].n = create_calls /\ oscalls[i].call # "accept"}
Successful(call) == {i \in DOMAIN oscalls : oscalls[i].call = call /\ oscalls[i].ok}

\* C7 (first part): a create() on an endpoint that already owns a descriptor
\* throws "Socket already exists." and changes nothing: no system call is
\* made, and the descriptor, the address and the kernel's state stay as they
\* are.
C7_CreateOnExistingStep ==
  (create_calls' = create_calls + 1 /\ _fd[EP] # NULL) =>
    /\ ep_err' = ErrExists
    /\ oscalls' = oscalls
    /\ _fd' = _fd
    /\ _res0' = _res0
    /\ fd_state' = fd_state
    /\ listen_state' = listen_state

\* C7: create() on an endpoint that owns a descriptor fails with the
\* already-created error and changes nothing, and over any sequence of
\* create() calls on one endpoint at most one descriptor is ever created.
C7_CreateAtMostOnce ==
  /\ [][C7_CreateOnExistingStep]_vars
  /\ [](Cardinality(Successful("socket")) <= 1)

\* a create() was refused on an endpoint that owns the one descriptor created
C7_Witness ==
  /\ last_api = "create"
  /\ ep_err = ErrExists
  /\ create_calls >= 2
  /\ Cardinality(Successful("socket")) = 1

\* C8: create() fails with the address-resolution error when ::getaddrinfo
\* fails, and with the socket-creation error when ::socket returns a negative
\* value, and then makes no ::setsockopt, ::bind or ::listen call on the
\* invalid descriptor.
C8_CreateReportsFailingStep ==
  last_api = "create" =>
    /\ (\E i \in LastCreate : oscalls[i].call = "getaddrinfo" /\ ~oscalls[i].ok)
         => ep_err = ErrResolve
    /\ (\E i \in LastCreate : oscalls[i].call = "socket" /\ ~oscalls[i].ok)
         => /\ ep_err = ErrSocket
            /\ \A j \in LastCreate :
                 oscalls[j].call \notin {"setsockopt", "bind", "listen"}

\* the descriptors of the endpoint on which create() succeeded
ListenerFds == {d \in Fds : \E i \in DOMAIN oscalls :
                  oscalls[i].call = "listen" /\ oscalls[i].ok /\ oscalls[i].fd = d}

\* C22: destroying a listening endpoint on which create() succeeded issues
\* exactly one ::close on its descriptor (the destructor of socket_impl and
\* the destructor of socket together close it once, not twice), and
\* destroying an endpoint that was never created issues no ::close.
C22_EndpointClosedOnce ==
  last_api = "destroy" =>
    /\ \A d \in ListenerFds : close_calls[d] = 1
    /\ create_calls = 0 => \A d \in Fds : close_calls[d] = 0

(***************************************************************************)
(* The claim about the server and its listener, checked under SpecServer.  *)
(***************************************************************************)
CreateCalls == {"getaddrinfo", "socket", "setsockopt", "bind", "listen"}
FailedCreateStep == \E i \in DOMAIN oscalls :
                      oscalls[i].call \in CreateCalls /\ ~oscalls[i].ok
\* the positions of run(): the loop has been entered
InRun == srv_pc \notin {"new", "ctor_unwind", "ctor_failed", "ready"}

\* entry i of the log is an ::accept preceded by the five steps of create(),
\* each successful, in their order, the last four on the descriptor that
\* ::accept is called on
OkCall(j, call) == oscalls[j].call = call /\ oscalls[j].ok
OkCallOn(j, call, i) == OkCall(j, call) /\ oscalls[j].fd = oscalls[i].fd
AfterFiveSteps(i) ==
  \E a \in 1..(i - 1) : OkCall(a, "getaddrinfo") /\
    \E b \in (a + 1)..(i - 1) : OkCallOn(b, "socket", i) /\
      \E c \in (b + 1)..(i - 1) : OkCallOn(c, "setsockopt", i) /\
        \E d \in (c + 1)..(i - 1) : OkCallOn(d, "bind", i) /\
          \E e \in (d + 1)..(i - 1) : OkCallOn(e, "listen", i)

\* C9: the loop of run() never calls accept on a listener that is not bound
\* and listening. If a step of create() (resolve, create the descriptor, set
\* the reuse-address option, bind, listen) fails, an error leaves the
\* constructor of the server and run() is never entered; every ::accept in
\* the log comes after the five steps, all successful, in their order; and
\* while run() is about to call accept the listener's descriptor is open,
\* bound and listening.
C9_AcceptOnlyOnListeningEndpoint ==
  /\ FailedCreateStep => run_err # ErrNone /\ ~InRun /\ srv_pc # "ready"
  /\ \A i \in DOMAIN oscalls : oscalls[i].call = "accept" => AfterFiveSteps(i)
  /\ srv_pc = "accept" =>
       /\ _fd[EP] \in Fds
       /\ IsOpen(_fd[EP])
       /\ listen_state[_fd[EP]].bound
       /\ listen_state[_fd[EP]].listening

\* a connection has been accepted by the loop, after a successful create()
C9_Witness ==
  /\ srv_pc = "hostname"
  /\ \E i \in DOMAIN oscalls : oscalls[i].call = "accept" /\ oscalls[i].ok
  /\ alive[W]


(***************************************************************************)
(* Claims about the loop of run() (checked under SpecServer).              *)
(***************************************************************************)
\* C17: once the request line has been parsed, building the request cannot
\* fail: whatever bytes the client sends after the request line, the header
\* lines are read to the end and no error is raised. (A failing ::recv is
\* not a byte stream the client sends: it is left aside.)
C17_HeadersNeverFail ==
  (rq_status = "ok" /\ srv_pc = "run_failed") => run_err = ErrIo

\* the accepted connections that are still open
InFlight == {d \in Fds : d # _fd[EP] /\ fd_state[d] = "open"}

\* C18: the loop is strictly sequential. Whenever run() is about to call
\* accept, no connection accepted before is still being parsed, routed or
\* handled; at most one accepted connection is in flight at any time; and the
\* connections are handed to the router in the order they were accepted.
C18_OneConnectionAtATime ==
  /\ (srv_pc = "accept" /\ proc = "running") => (~alive[W] /\ InFlight = {})
  /\ Cardinality(InFlight) <= 1
  /\ \A i, j \in DOMAIN dispatched : i < j => dispatched[i].conn < dispatched[j].conn

\* a second connection has been accepted after the first one was routed
C18_Witness ==
  /\ srv_pc = "hostname"
  /\ accept_calls = 2
  /\ Len(dispatched) = 1
  /\ dispatched[1].conn = 1
  /\ Cardinality(InFlight) = 1

\* C19: when reading or parsing the request of an accepted connection fails,
\* the error leaves run(): once an error has been raised in the loop, run()
\* is over, the router has not been called for that connection, no response
\* was prepared for it, and nothing more is accepted, routed or changed.
C19_FailedState ==
  (InRun /\ run_err # ErrNone) =>
    /\ srv_pc = "run_failed"
    /\ \A i \in DOMAIN dispatched : dispatched[i].conn # accept_calls
    /\ res_location = <<>>
C19_FailedStep ==
  srv_pc = "run_failed" =>
    /\ srv_pc' = "run_failed"
    /\ accept_calls' = accept_calls
    /\ dispatched' = dispatched
    /\ res_location' = res_location
    /\ run_err' = run_err
C19_ErrorLeavesRun == [][C19_FailedStep]_vars /\ []C19_FailedState

\* parsing the request line of a connection failed after it was read
C19_Witness ==
  /\ srv_pc = "run_failed"
  /\ rq_status = "error"
  /\ run_err = "Invalid request line"
  /\ accept_calls = 1

\* the request has a Host header: a header line stored the name, in any case
HostNames == {n \in hdr_stored : lowercase(n) = <<"h", "o", "s", "t">>}

\* C20: when the router is about to be called, the response has a Location
\* header if and only if the request has a Host header (in any letter case),
\* and its value is "http://", then the value of Host, then the path.
C20_LocationFromHost ==
  srv_pc = "route" =>
    IF HostNames # {}
    THEN res_location = <<"h", "t", "t", "p", ":", "/", "/">>
                          \o _header[<<"h", "o", "s", "t">>] \o _path
    ELSE res_location = <<>>

\* Host 'x' and path '/a' gave Location 'http://x/a'
C20_Witness ==
  /\ srv_pc = "route"
  /\ HostNames # {}
  /\ res_location = <<"h", "t", "t", "p", ":", "/", "/", "x", "/", "a">>

\* C21: a request whose path matches no registered route does not end the
\* loop. After the router reported no-route for the connection being served,
\* no error has left run(): the loop body ends and the loop is back at accept.
C21_NoRouteKeepsLoop ==
  \A i \in DOMAIN dispatched :
    (dispatched[i].route = NoRoute /\ dispatched[i].conn = accept_calls) =>
      /\ srv_pc \in {"end_iteration", "accept"}
      /\ run_err = ErrNone

\* the next connection was accepted after a request that matched no route
C21_Witness ==
  /\ accept_calls = 2
  /\ srv_pc = "hostname"
  /\ Len(dispatched) = 1
  /\ dispatched[1].route = NoRoute
  /\ alive[W]

\* the descriptors ::accept has returned
Accepted == {d \in Fds : /\ fd_state[d] # "unused"
                          /\ \A i \in DOMAIN oscalls :
                               oscalls[i].call = "socket" => oscalls[i].fd # d}
\* the positions of run() between accept and the end of the loop body
Serving == srv_pc \in {"hostname", "request_line", "header_lines", "respond", "route",
                       "end_iteration"}

\* C24: the descriptor accept returned stays open while the request of its
\* connection is parsed, the default headers are set and the request is
\* routed, and it is closed exactly once afterwards: before the next accept,
\* and before run() is left by an error. No accepted descriptor is leaked or
\* closed twice, the return of the worker from accept() included.
C24_AcceptedDescriptorLifetime ==
  /\ (Serving /\ proc = "running") =>
       /\ alive[W]
       /\ IsOpen(_fd[W])
       /\ close_calls[_fd[W]] = 0
  /\ \A d \in Accepted : close_calls[d] <= 1
  /\ (srv_pc \in {"accept", "run_failed"} /\ proc = "running") =>
       \A d \in Accepted : fd_state[d] = "closed" /\ close_calls[d] = 1

\* C25: the end of the stream is read as the blank line. When the peer has
\* closed and nothing is left in the queue, the read_line() of the header
\* loop returns the empty string and the loop ends: the request is built
\* with the headers read so far and no error is raised. (A failing ::recv
\* is left aside.)
C25_EofStep ==
  (srv_pc = "header_lines" /\ queue = <<>> /\ peer_closed /\ srv_pc' # srv_pc) =>
    \/ srv_pc' = "run_failed" /\ run_err' = ErrIo
    \/ /\ srv_pc' = "respond"
       /\ run_err' = ErrNone
       /\ _header' = _header
       /\ hdr_stored' = hdr_stored
       /\ rq_status' = "ok"
       /\ proc' = proc
C25_EndOfStreamEndsHeaders == [][C25_EofStep]_vars

\* the peer closed after 'Host:x' CRLF, and the request was built with Host
C25_Witness ==
  /\ srv_pc = "respond"
  /\ peer_closed
  /\ rl.before = <<>>
  /\ rl.status = "ok"
  /\ hdr_pos = 1
  /\ has_header(_header, HOST)
  /\ run_err = ErrNone

\* C26: building the request ends on every finite input. Every turn of the
\* header loop takes at least two bytes from the queue, or ends the loop, or
\* fails; so the number of lines processed is bounded by the bytes the
\* client sends: twice that number, plus the bytes still queued or still to
\* arrive, never exceeds the length of a stream.
C26_TurnStep ==
  (srv_pc = "header_lines" /\ wire' = wire /\ peer_closed' = peer_closed) =>
    \/ srv_pc' \in {"respond", "run_failed"}
    \/ /\ hdr_pos' = hdr_pos + 1
       /\ Len(queue') <= Len(queue) - 2
C26_Bounded ==
  Serving => \E st \in ClientStreams : 2 * hdr_pos + Len(queue) + Len(wire) <= Len(st)
C26_RequestConstructionEnds == [][C26_TurnStep]_vars /\ []C26_Bounded

\* the header loop took a turn, a line was processed and the loop went on
C26_Witness ==
  /\ srv_pc = "header_lines"
  /\ hdr_pos = 1
  /\ rl.status = "ok"
  /\ Len(rl.after) <= Len(rl.before) - 2

\* C27: when the name of the accepted peer cannot be resolved, the error
\* leaves run() before any byte of the connection is read: the request is
\* not parsed, the router is not called, and nothing more is accepted.
C27_FailedState ==
  run_err = ErrHostname =>
    /\ srv_pc = "run_failed"
    /\ rl = NoReadLine
    /\ rq_status = "none"
    /\ hdr_pos = 0
    /\ res_location = <<>>
    /\ \A i \in DOMAIN dispatched : dispatched[i].conn # accept_calls
C27_FailedStep ==
  run_err = ErrHostname =>
    /\ accept_calls' = accept_calls
    /\ rl' = rl
    /\ dispatched' = dispatched
    /\ run_err' = run_err
C27_HostnameFailureLeavesRun == [][C27_FailedStep]_vars /\ []C27_FailedState

\* the lookup failed with bytes of the request already in the queue, unread
C27_Witness ==
  /\ run_err = ErrHostname
  /\ srv_pc = "run_failed"
  /\ queue # <<>>
  /\ rl = NoReadLine

(***************************************************************************)
(* The specifications.                                                     *)
(***************************************************************************)
SockNext ==
  \/ \E h \in Handles : socket_default(h) /\ UNCHANGED <<lineVars, epVars, reqVars, srvVars>>
  \/ \E h \in Handles, d \in Fds : socket_from_fd(h, d) /\ UNCHANGED <<lineVars, epVars, reqVars, srvVars>>
  \/ \E s, h \in Handles : socket_copy(s, h) /\ UNCHANGED <<lineVars, epVars, reqVars, srvVars>>
  \/ \E h \in Handles : socket_dtor(h) /\ UNCHANGED <<lineVars, epVars, reqVars, srvVars>>
  \/ \E h \in Handles : read_block_call(h) /\ UNCHANGED <<lineVars, epVars, reqVars, srvVars>>
  \/ \E h \in Handles : write_block_call(h) /\ UNCHANGED <<lineVars, epVars, reqVars, srvVars>>

SocketInit == SockInit /\ LineIdle /\ EpInit /\ ReqIdle /\ SrvIdle

SpecSocket == SocketInit /\ [][SockNext]_vars

LineNext ==
  \/ \E n \in 1..MaxWire : Arrive(n) /\ UNCHANGED <<sockVars, epVars, reqVars, srvVars>>
  \/ PeerClose /\ UNCHANGED <<sockVars, epVars, reqVars, srvVars>>
  \/ ReadLine /\ UNCHANGED <<sockVars, epVars, reqVars, srvVars>>

StreamInit == LineInit /\ SockInit /\ EpInit /\ ReqIdle /\ SrvIdle

SpecLine == StreamInit /\ [][LineNext]_vars

EndpointNext ==
  \/ net_server_create /\ UNCHANGED <<lineVars, reqVars, srvVars>>
  \/ \E w \in Handles : net_server_accept(w) /\ UNCHANGED <<lineVars, reqVars, srvVars>>
  \/ \E w \in Handles \ {EP} : socket_dtor(w) /\ UNCHANGED <<lineVars, epVars, reqVars, srvVars>>
  \/ socket_impl_dtor(EP) /\ UNCHANGED <<lineVars, reqVars, srvVars>>

EndpointOnlyInit == EndpointInit /\ SrvIdle

SpecEndpoint == EndpointOnlyInit /\ [][EndpointNext]_vars

RequestLineInit == ReqInit /\ SockInit /\ LineIdle /\ EpInit /\ SrvIdle

RequestLineNext ==
  \/ ProcessRequestLine /\ UNCHANGED <<sockVars, lineVars, epVars, srvVars>>

SpecRequestLine == RequestLineInit /\ [][RequestLineNext]_vars

HeadersInit == HdrInit /\ SockInit /\ LineIdle /\ EpInit /\ SrvIdle

HeadersNext ==
  \/ ProcessHeaderLine /\ UNCHANGED <<sockVars, lineVars, epVars, srvVars>>

SpecHeaders == HeadersInit /\ [][HeadersNext]_vars

====
